---- MODULE Spec2Model ----
(***************************************************************************)
(* Model of the "75 soft" habit tracker (src/src/App.tsx).  The file holds *)
(* two variants of the component; their state logic (makeEmptyState,       *)
(* useLocalStorageState, toggle, resetAll, percentDone) is the same text   *)
(* in both, so one model covers both.                                      *)
(*                                                                         *)
(* JavaScript values are tagged records; an object is the ordered list of  *)
(* its own properties, keyed by strings (a number used as a key is turned  *)
(* into its decimal string, as JavaScript does).  A JSON text is the       *)
(* sequence of its tokens; JSON_stringify writes it and JSON_parse reads   *)
(* it token by token with a stack of the open containers.                  *)
(***************************************************************************)
EXTENDS Integers, Sequences, FiniteSets, TLC

VARIABLES
    state,      \* the TrackerState held by useState (first hook of App)
    startDate,  \* the start date held by useState (second hook of App)
    store,      \* localStorage: a function from the keys present to texts
    phase,      \* "closed" (page not open), "mounted" (first render done, its
                \* effects pending), "running", "crashed" (a render threw)
    ops,        \* number of user operations so far (bounds the exploration)
    last        \* history: the last operation, its inputs and the state before it

vars == <<state, startDate, store, phase, ops, last>>

-----------------------------------------------------------------------------
(* Program constants *)

NumDays == 75

HABITS == <<"diet", "water", "book", "workout", "pic">>

STORAGE_KEY == "75soft-tracker-v1"

DATE_KEY == "75soft-startDate"

(* Bounds of the exploration *)

MaxOps == 2

TryCells == 4

HabitSet == {HABITS[i] : i \in 1..Len(HABITS)}

-----------------------------------------------------------------------------
(* JavaScript values *)

JSBool(b) == [t |-> "boolean", b |-> b]

JSNull == [t |-> "null"]

JSUndefined == [t |-> "undefined"]

JSNumber(n) == [t |-> "number", n |-> n]

JSString(s) == [t |-> "string", s |-> s]

JSObject(props) == [t |-> "object", props |-> props]

JSArray(items) == [t |-> "array", items |-> items]

\* A string that holds a JSON text (what localStorage stores): its tokens.
JSText(toks) == [t |-> "text", toks |-> toks]

\* The result of an evaluation that throws.
Throw == [t |-> "throw"]

IsNullish(v) == v.t \in {"null", "undefined"}

\* ToBoolean, as used by `!x`, `x ? a : b` and `!dateStr`.
ToBoolean(v) ==
    CASE v.t = "boolean" -> v.b
      [] v.t = "number" -> v.n # 0
      [] v.t = "string" -> v.s # ""
      [] v.t = "text" -> v.toks # <<>>
      [] v.t \in {"null", "undefined"} -> FALSE
      [] OTHER -> TRUE

\* The property key a number is converted to: String(day).
PropertyKey(day) == ToString(day)

\* The i-th character of a string.
Char(s, i) == SubSeq(s, i, i)

DigitSet == {"0", "1", "2", "3", "4", "5", "6", "7", "8", "9"}

\* The decimal digits in order: the digit d is Digits[d + 1].
Digits == <<"0", "1", "2", "3", "4", "5", "6", "7", "8", "9">>

DigitValue(c) == CHOOSE d \in 0..9 : Digits[d + 1] = c

\* a < b as numbers, for two strings of digits of the same length.
DigitsLess(a, b) ==
    \E i \in 1..Len(a) :
        /\ SubSeq(a, 1, i - 1) = SubSeq(b, 1, i - 1)
        /\ DigitValue(Char(a, i)) < DigitValue(Char(b, i))

\* The key is an array index (an "integer-like" key): the canonical decimal
\* string of an integer from 0 to 2^32 - 2.
IsArrayIndex(k) ==
    /\ Len(k) \in 1..10
    /\ \A i \in 1..Len(k) : Char(k, i) \in DigitSet
    /\ Len(k) = 1 \/ Char(k, 1) # "0"
    /\ Len(k) = 10 => DigitsLess(k, "4294967295")

\* a < b as numbers, for two array indices.
IndexLess(a, b) == Len(a) < Len(b) \/ (Len(a) = Len(b) /\ DigitsLess(a, b))

RECURSIVE DecimalValue(_, _)

\* The number the first n digits of s write.
DecimalValue(s, n) ==
    IF n = 0 THEN 0 ELSE 10 * DecimalValue(s, n - 1) + DigitValue(Char(s, n))

\* The position the key k names among n items (of an array, or the
\* characters of a string), from 0, or -1 when it names none.
ItemIndex(k, n) ==
    IF IsArrayIndex(k) /\ Len(k) <= 9
    THEN (IF DecimalValue(k, Len(k)) < n THEN DecimalValue(k, Len(k)) ELSE -1)
    ELSE -1

\* One property of an object: its key and its value.
Prop(k, v) == [k |-> k, v |-> v]

HasProp(props, k) == \E i \in 1..Len(props) : props[i].k = k

PropValue(props, k) == props[CHOOSE i \in 1..Len(props) : props[i].k = k].v

\* Where a new key goes in an object's property order: integer keys in
\* ascending order first, then names in order of creation.
InsertAt(props, k) ==
    IF props = <<>> \/ ~IsArrayIndex(k) THEN Len(props) + 1
    ELSE IF IsArrayIndex(props[Len(props)].k) /\ IndexLess(props[Len(props)].k, k)
    THEN Len(props) + 1
    ELSE LET later == {i \in 1..Len(props) :
                          ~IsArrayIndex(props[i].k) \/ IndexLess(k, props[i].k)}
         IN IF later = {} THEN Len(props) + 1
            ELSE CHOOSE i \in later : \A j \in later : i <= j

\* obj[k] = v on the property list of an object (create or overwrite).
SetProp(props, k, v) ==
    IF HasProp(props, k)
    THEN [i \in 1..Len(props) |-> IF props[i].k = k THEN Prop(k, v) ELSE props[i]]
    ELSE LET at == InsertAt(props, k) IN
         SubSeq(props, 1, at - 1) \o <<Prop(k, v)>> \o SubSeq(props, at, Len(props))

\* o[k] for a value o that is not null or undefined (those throw; the
\* callers test for them), k being an index, "length" or a name no
\* prototype has.  A string is read as its characters.
Get(o, k) ==
    CASE o.t = "object" -> IF HasProp(o.props, k) THEN PropValue(o.props, k) ELSE JSUndefined
      [] o.t = "array" ->
            IF k = "length" THEN JSNumber(Len(o.items))
            ELSE IF ItemIndex(k, Len(o.items)) >= 0
            THEN o.items[ItemIndex(k, Len(o.items)) + 1]
            ELSE JSUndefined
      [] o.t = "string" ->
            IF k = "length" THEN JSNumber(Len(o.s))
            ELSE IF ItemIndex(k, Len(o.s)) >= 0
            THEN JSString(Char(o.s, ItemIndex(k, Len(o.s)) + 1))
            ELSE JSUndefined
      [] OTHER -> JSUndefined

\* The own enumerable properties `{...o}` copies.
Spread(o) ==
    CASE o.t = "object" -> o.props
      [] o.t = "array" -> [i \in 1..Len(o.items) |-> Prop(ToString(i - 1), o.items[i])]
      [] o.t = "string" -> [i \in 1..Len(o.s) |-> Prop(ToString(i - 1), JSString(Char(o.s, i)))]
      [] OTHER -> <<>>

\* Object.values(o) for a value o that is not null or undefined.
ObjectValues(o) ==
    CASE o.t = "object" -> [i \in 1..Len(o.props) |-> o.props[i].v]
      [] o.t = "array" -> o.items
      [] o.t = "string" -> [i \in 1..Len(o.s) |-> JSString(Char(o.s, i))]
      [] OTHER -> <<>>

-----------------------------------------------------------------------------
(* JSON texts: sequences of tokens *)

\* A token: punctuation ("p"), a literal name ("lit"), a quoted string ("str").
Tok(kind, lex) == [tok |-> kind, lex |-> lex]

\* A number token.
NumTok(n) == [tok |-> "num", n |-> n]

RECURSIVE JSON_stringify(_)
RECURSIVE StringifyMembers(_, _, _)
RECURSIVE StringifyItems(_, _, _)

\* The members lo..hi of an object, each after the first preceded by a comma
\* (the list is split in halves to keep the evaluation shallow).
StringifyMembers(props, lo, hi) ==
    IF lo > hi THEN <<>>
    ELSE IF lo = hi
    THEN (IF lo > 1 THEN <<Tok("p", ",")>> ELSE <<>>)
         \o <<Tok("str", props[lo].k), Tok("p", ":")>>
         \o JSON_stringify(props[lo].v)
    ELSE LET mid == (lo + hi) \div 2 IN
         StringifyMembers(props, lo, mid) \o StringifyMembers(props, mid + 1, hi)

\* The items lo..hi of an array; undefined is written as null.
StringifyItems(items, lo, hi) ==
    IF lo > hi THEN <<>>
    ELSE IF lo = hi
    THEN (IF lo > 1 THEN <<Tok("p", ",")>> ELSE <<>>)
         \o (IF items[lo].t = "undefined" THEN <<Tok("lit", "null")>>
             ELSE JSON_stringify(items[lo]))
    ELSE LET mid == (lo + hi) \div 2 IN
         StringifyItems(items, lo, mid) \o StringifyItems(items, mid + 1, hi)

\* JSON.stringify(v), as the text setItem then stores.  Members whose value
\* is undefined are left out; setItem turns an undefined result into the
\* text "undefined".
JSON_stringify(v) ==
    CASE v.t = "boolean" -> <<Tok("lit", IF v.b THEN "true" ELSE "false")>>
      [] v.t = "null" -> <<Tok("lit", "null")>>
      [] v.t = "number" -> <<NumTok(v.n)>>
      [] v.t = "string" -> <<Tok("str", v.s)>>
      [] v.t = "object" ->
            <<Tok("p", "{")>>
            \o (LET kept == SelectSeq(v.props, LAMBDA p : p.v.t # "undefined")
                IN StringifyMembers(kept, 1, Len(kept)))
            \o <<Tok("p", "}")>>
      [] v.t = "array" ->
            <<Tok("p", "[")>> \o StringifyItems(v.items, 1, Len(v.items)) \o <<Tok("p", "]")>>
      [] OTHER -> <<Tok("lit", "undefined")>>

(* JSON.parse reads the tokens one at a time with a stack of the objects   *)
(* and arrays that are still open.                                         *)

\* An open object or array: what it holds so far, the key that waits for
\* its value, and what may come next.
Frame(kind, acc, key, expect) == [kind |-> kind, acc |-> acc, key |-> key, expect |-> expect]

\* The parser: the next position, the open containers (innermost last), and
\* "run", "done" (v is the value of the text) or "error".
Parser(pos, stack, status, v) == [pos |-> pos, stack |-> stack, status |-> status, v |-> v]

ParseStart == Parser(1, <<>>, "run", JSUndefined)

ParseError == Parser(0, <<>>, "error", JSUndefined)

\* A value v ends at the token before `pos`: it goes into the innermost open
\* container, or it is the value of the whole text, which must end there.
\* A key given twice keeps its last value.
Deliver(toks, pos, stack, v) ==
    IF stack = <<>>
    THEN (IF pos = Len(toks) + 1 THEN Parser(pos, <<>>, "done", v) ELSE ParseError)
    ELSE Parser(pos,
                [stack EXCEPT ![Len(stack)] =
                    IF @.kind = "object"
                    THEN Frame("object", SetProp(@.acc, @.key, v), "", "commaOrEnd")
                    ELSE Frame("array", Append(@.acc, v), "", "commaOrEnd")],
                "run", JSUndefined)

\* The value a token stands for by itself.
ScalarValue(tk) ==
    CASE tk = Tok("lit", "true") -> JSBool(TRUE)
      [] tk = Tok("lit", "false") -> JSBool(FALSE)
      [] tk = Tok("lit", "null") -> JSNull
      [] tk.tok = "num" -> JSNumber(tk.n)
      [] OTHER -> JSString(tk.lex)

\* What the token tk does where `expect` may come, the innermost open
\* container being of kind `kind` ("" when there is none).
TokenAct(tk, expect, kind) ==
    CASE expect \in {"value", "valueOrEnd"} ->
            (CASE tk \in {Tok("lit", "true"), Tok("lit", "false"), Tok("lit", "null")} -> "scalar"
               [] tk.tok \in {"num", "str"} -> "scalar"
               [] tk = Tok("p", "{") -> "openObject"
               [] tk = Tok("p", "[") -> "openArray"
               [] tk = Tok("p", "]") /\ expect = "valueOrEnd" -> "close"
               [] OTHER -> "error")
      [] expect \in {"key", "keyOrEnd"} ->
            (CASE tk.tok = "str" -> "key"
               [] tk = Tok("p", "}") /\ expect = "keyOrEnd" -> "close"
               [] OTHER -> "error")
      [] expect = "colon" -> IF tk = Tok("p", ":") THEN "colon" ELSE "error"
      [] expect = "commaOrEnd" ->
            (CASE tk = Tok("p", ",") -> "comma"
               [] tk = Tok("p", "}") /\ kind = "object" -> "close"
               [] tk = Tok("p", "]") /\ kind = "array" -> "close"
               [] OTHER -> "error")
      [] OTHER -> "error"

\* The parser at `next` after the token tk did `act` on the stack.
Act(toks, next, stack, tk, act) ==
    CASE act \in {"scalar", "close"} ->
            Deliver(toks, next,
                    IF act = "close" THEN SubSeq(stack, 1, Len(stack) - 1) ELSE stack,
                    CASE act = "scalar" -> ScalarValue(tk)
                      [] stack[Len(stack)].kind = "object" -> JSObject(stack[Len(stack)].acc)
                      [] OTHER -> JSArray(stack[Len(stack)].acc))
      [] act = "openObject" ->
            Parser(next, Append(stack, Frame("object", <<>>, "", "keyOrEnd")), "run", JSUndefined)
      [] act = "openArray" ->
            Parser(next, Append(stack, Frame("array", <<>>, "", "valueOrEnd")), "run", JSUndefined)
      [] act = "key" ->
            Parser(next, [stack EXCEPT ![Len(stack)] = Frame("object", @.acc, tk.lex, "colon")],
                   "run", JSUndefined)
      [] act = "colon" ->
            Parser(next, [stack EXCEPT ![Len(stack)].expect = "value"], "run", JSUndefined)
      [] act = "comma" ->
            Parser(next,
                   [stack EXCEPT ![Len(stack)].expect =
                       IF stack[Len(stack)].kind = "object" THEN "key" ELSE "value"],
                   "run", JSUndefined)
      [] OTHER -> ParseError

\* The parser after it has read one more token.
ParseStep(toks, st) ==
    IF st.status # "run" THEN st
    ELSE IF st.pos > Len(toks) THEN ParseError
    ELSE Act(toks, st.pos + 1, st.stack, toks[st.pos],
             IF st.stack = <<>>
             THEN TokenAct(toks[st.pos], "value", "")
             ELSE TokenAct(toks[st.pos], st.stack[Len(st.stack)].expect,
                           st.stack[Len(st.stack)].kind))

RECURSIVE ParseRun(_, _, _)

\* The parser after 2^k more tokens (or fewer, when it stops before).
ParseRun(toks, st, k) ==
    IF k = 0 THEN ParseStep(toks, st)
    ELSE LET half == ParseRun(toks, st, k - 1) IN
         IF half.status # "run" THEN half ELSE ParseRun(toks, half, k - 1)

RECURSIVE Log2(_)

\* The least k with 2^k >= n.
Log2(n) == IF n <= 1 THEN 0 ELSE 1 + Log2((n + 1) \div 2)

\* JSON.parse(text): the value, or Throw for a SyntaxError.  One step more
\* than there are tokens lets the parser see that the text ended.
ParseResult(st) == IF st.status = "done" THEN st.v ELSE Throw

JSON_parse(toks) == ParseResult(ParseRun(toks, ParseStart, Log2(Len(toks) + 1)))

-----------------------------------------------------------------------------
(* The tracker state *)

RECURSIVE makeEmptyStateFrom(_, _)
RECURSIVE makeEmptyStateFrom_stopsEarly(_, _)

\* The loop of makeEmptyState with d < 75 for its test: day 75 is left out.
makeEmptyStateFrom_stopsEarly(d, props) ==
    IF d < NumDays /\ Len(props) = d - 1
    THEN makeEmptyStateFrom_stopsEarly(d + 1,
            SetProp(props, PropertyKey(d),
                    JSObject(<<Prop("diet", JSBool(FALSE)), Prop("water", JSBool(FALSE)),
                               Prop("book", JSBool(FALSE)), Prop("workout", JSBool(FALSE)),
                               Prop("pic", JSBool(FALSE))>>)))
    ELSE props

\* The loop of makeEmptyState from day d on.
makeEmptyStateFrom(d, props) ==
    IF d <= NumDays /\ Len(props) = d - 1
    THEN makeEmptyStateFrom(d + 1,
            SetProp(props, PropertyKey(d),
                    JSObject(<<Prop("diet", JSBool(FALSE)), Prop("water", JSBool(FALSE)),
                               Prop("book", JSBool(FALSE)), Prop("workout", JSBool(FALSE)),
                               Prop("pic", JSBool(FALSE))>>)))
    ELSE props

makeEmptyState == JSObject(makeEmptyStateFrom(1, <<>>))

\* localStorage.getItem(key): the text stored, or null.
getItem(st, key) == IF key \in DOMAIN st THEN JSText(st[key]) ELSE JSNull

\* localStorage.setItem(key, text) when the write succeeds.
setItem(st, key, toks) == [k \in DOMAIN st \cup {key} |-> IF k = key THEN toks ELSE st[k]]

\* The catch of the initializer: a parse that throws gives `initial`.
OrInitial(v, initial) == IF v = Throw THEN initial ELSE v

\* The initializer that never looks at the store.
loadValue_ignoresStore(st, key, initial, readOk) == initial

\* The initializer of useState in useLocalStorageState: the stored value
\* parsed, or `initial` when there is none, the read throws or the parse throws.
loadValue(st, key, initial, readOk) ==
    IF ~readOk THEN initial
    ELSE LET raw == getItem(st, key) IN
         IF ToBoolean(raw)
         THEN OrInitial(JSON_parse(raw.toks), initial)
         ELSE initial

\* The effect that writes a key only when the store has none yet.
saveValue_keepsFirst(st, key, val, writeOk) ==
    IF writeOk /\ key \notin DOMAIN st THEN setItem(st, key, JSON_stringify(val)) ELSE st

\* The effect whose failed write leaves the key removed.
saveValue_dropsOnFailure(st, key, val, writeOk) ==
    IF writeOk THEN setItem(st, key, JSON_stringify(val))
    ELSE [k \in DOMAIN st \ {key} |-> st[k]]

\* The effect with one key for both hooks: every value goes under the state key.
saveValue_sharedKey(st, key, val, writeOk) ==
    IF writeOk THEN setItem(st, STORAGE_KEY, JSON_stringify(val)) ELSE st

\* The effect of useLocalStorageState: setItem(key, JSON.stringify(val)),
\* with a failing write caught and ignored.
saveValue(st, key, val, writeOk) ==
    IF writeOk THEN setItem(st, key, JSON_stringify(val)) ELSE st

\* state[day][h], as the cells read it (state[day] exists).
Flag(s, day, habit) == Get(Get(s, PropertyKey(day)), habit)

\* toggle with the day's record rebuilt from the one habit alone.
toggle_dropsRecord(prev, day, habit) ==
    JSObject(SetProp(Spread(prev), PropertyKey(day),
             JSObject(<<Prop(habit, JSBool(~ToBoolean(Flag(prev, day, habit))))>>)))

\* toggle that marks the cell done whatever it was.
toggle_setsTrue(prev, day, habit) ==
    JSObject(SetProp(Spread(prev), PropertyKey(day),
             JSObject(SetProp(Spread(Get(prev, PropertyKey(day))), habit, JSBool(TRUE)))))

\* The updater toggle gives setState:
\*   {...prev, [day]: {...prev[day], [habit]: !prev[day][habit]}}
\* Reading prev[day] of a null prev, or [habit] of a missing day, throws.
toggle(prev, day, habit) ==
    IF IsNullish(prev) THEN Throw
    ELSE LET rec == Get(prev, PropertyKey(day)) IN
         IF IsNullish(rec) THEN Throw
         ELSE JSObject(SetProp(Spread(prev), PropertyKey(day),
                  JSObject(SetProp(Spread(rec), habit,
                                   JSBool(~ToBoolean(Get(rec, habit)))))))

RECURSIVE CountHabits(_, _)
RECURSIVE CountDone(_, _, _)

\* HABITS.reduce((a, h) => a + (day[h] ? 1 : 0), 0), from the i-th habit on.
CountHabits(day, i) ==
    IF i > Len(HABITS) THEN 0
    ELSE (IF ToBoolean(Get(day, HABITS[i])) THEN 1 ELSE 0) + CountHabits(day, i + 1)

\* Object.values(state).reduce((acc, day) => acc + ..., 0) over the values
\* lo..hi (the sum is split in halves to keep the evaluation shallow).
CountDone(values, lo, hi) ==
    IF lo > hi THEN 0
    ELSE IF lo = hi THEN CountHabits(values[lo], 1)
    ELSE LET mid == (lo + hi) \div 2 IN
         CountDone(values, lo, mid) + CountDone(values, mid + 1, hi)

\* done of percentDone.
DoneCount(s) == CountDone(ObjectValues(s), 1, Len(ObjectValues(s)))

\* Math.round(x) for x = num / den >= 0: the integer nearest, halves upwards.
MathRound(num, den) == (2 * num + den) \div (2 * den)

\* percentDone with the quotient cut off (Math.floor) instead of rounded.
percentDone_floors(s) == (DoneCount(s) * 100) \div (NumDays * Len(HABITS))

\* percentDone: Math.round((done / total) * 100).  done * 100 / total is a
\* multiple of 1/375, never within 1/750 of a half, so the rounding of the
\* floating-point quotient is that of the exact one.
percentDone(s) ==
    LET total == NumDays * Len(HABITS)
        done == DoneCount(s)
    IN MathRound(done * 100, total)

\* percentDone throws: Object.values(null), or day[h] of a value that is null.
percentThrows(s) ==
    \/ IsNullish(s)
    \/ \E i \in 1..Len(ObjectValues(s)) : IsNullish(ObjectValues(s)[i])

\* formatCZ(startDate) throws: a truthy value with no split method.
formatCZ_throws(d) == ToBoolean(d) /\ d.t # "string"

\* The cells read state[day][h] for day 1..75: a missing day throws.
cellsThrow(s) ==
    \/ IsNullish(s)
    \/ \E day \in 1..NumDays : IsNullish(Get(s, PropertyKey(day)))

RECURSIVE ToStringThrows(_)

\* '' + v throws: no string can be made of v.  A parsed object has a string
\* unless a property of its own hides toString (no parsed value is a
\* function); an array joins the strings of its items.
ToStringThrows(v) ==
    CASE v.t = "object" -> HasProp(v.props, "toString")
      [] v.t = "array" -> \E i \in 1..Len(v.items) : ToStringThrows(v.items[i])
      [] OTHER -> FALSE

\* aria-pressed={active} of a Cell throws: React writes the flag as the
\* string of an attribute.
attributeThrows(s) ==
    \E day \in 1..NumDays, i \in 1..Len(HABITS) : ToStringThrows(Flag(s, day, HABITS[i]))

\* A render of App with these hook values throws (React then unmounts it).
renderThrows(s, d) ==
    percentThrows(s) \/ formatCZ_throws(d) \/ cellsThrow(s) \/ attributeThrows(s)

-----------------------------------------------------------------------------
(* The application *)

\* The n-th cell of the grid the exploration clicks, of the TryCells it
\* clicks: the days and the habits are taken in strides, so that the first
\* cells are (1, diet), (38, book), (75, pic), (37, water).
TryCell(n) ==
    [day |-> 1 + (((n - 1) * 37) % NumDays),
     habit |-> HABITS[1 + (((n - 1) * 2) % Len(HABITS))]]

\* The dates the exploration gives the date input: no date and one date.

StartDates == {JSString(""), JSString("2025-01-01")}

\* The history variable: the operation, its inputs, whether its read and its
\* write of the state key succeeded.
Op(name, day, habit, yes, readOk, writeOk) ==
    [op |-> name, day |-> day, habit |-> habit, yes |-> yes,
     readOk |-> readOk, writeOk |-> writeOk]

Init ==
    /\ state = JSUndefined
    /\ startDate = JSUndefined
    /\ store = <<>>
    /\ phase = "closed"
    /\ ops = 0
    /\ last = Op("none", 0, "", FALSE, FALSE, FALSE)

\* The first render of App, with the values s and d the hooks loaded.  Its
\* two effects are left pending; a render that throws unmounts the
\* application and leaves none.
FirstRender(s, d, readOk) ==
    /\ state' = s
    /\ startDate' = d
    /\ phase' = IF renderThrows(s, d) THEN "crashed" ELSE "mounted"
    /\ last' = Op("mount", 0, "", FALSE, readOk, FALSE)
    /\ UNCHANGED store

\* The page is opened or reloaded: both hooks initialize from the store
\* (getItem throws for both keys when the page may not read the store, for
\* neither otherwise), then the first render.  Effects that were pending in
\* the page that is left are never run.
Mount(readOk) ==
    /\ FirstRender(loadValue(store, STORAGE_KEY, makeEmptyState, readOk),
                   loadValue(store, DATE_KEY, JSString(""), readOk), readOk)
    /\ ops' = IF phase = "closed" THEN 0 ELSE ops + 1

\* The effects of the first render run, in a task after it and before any
\* handler: the state is written, then the date (each write may throw on
\* its own).
MountEffects ==
    /\ phase = "mounted"
    /\ phase' = "running"
    /\ \E writeState, writeDate \in BOOLEAN :
          /\ store' = saveValue(saveValue(store, STORAGE_KEY, state, writeState),
                                DATE_KEY, startDate, writeDate)
          /\ last' = Op("effects", 0, "", FALSE, FALSE, writeState)
    /\ UNCHANGED <<state, startDate, ops>>

\* A click on the cell (day, habit): setState with the toggle updater, the
\* render that follows, and the effect that saves the new state (the write
\* may throw).  An updater or a render that throws unmounts the application.
Toggle(day, habit) ==
    /\ phase = "running"
    /\ LET s == toggle(state, day, habit) IN
       IF s = Throw
       THEN /\ phase' = "crashed" /\ state' = state /\ store' = store
            /\ last' = Op("toggle", day, habit, FALSE, FALSE, FALSE)
       ELSE /\ state' = s
            /\ IF renderThrows(s, startDate)
               THEN /\ phase' = "crashed" /\ store' = store
                    /\ last' = Op("toggle", day, habit, FALSE, FALSE, FALSE)
               ELSE /\ phase' = phase
                    /\ \E writeOk \in BOOLEAN :
                          /\ store' = saveValue(store, STORAGE_KEY, s, writeOk)
                          /\ last' = Op("toggle", day, habit, FALSE, FALSE, writeOk)
    /\ ops' = ops + 1
    /\ UNCHANGED startDate

\* resetAll without the confirm() test: the state is replaced on "no" too.
ResetAll_unconfirmed(yes) ==
    /\ phase = "running"
    /\ state' = makeEmptyState
    /\ \E writeOk \in BOOLEAN :
          /\ store' = saveValue(store, STORAGE_KEY, makeEmptyState, writeOk)
          /\ last' = Op("reset", 0, "", yes, FALSE, writeOk)
    /\ ops' = ops + 1
    /\ UNCHANGED <<startDate, phase>>

\* A click on the reset button: confirm(), and on yes setState(makeEmptyState()),
\* the render and the saving effect.
ResetAll(yes) ==
    /\ phase = "running"
    /\ IF yes
       THEN /\ state' = makeEmptyState
            /\ \E writeOk \in BOOLEAN :
                  /\ store' = saveValue(store, STORAGE_KEY, makeEmptyState, writeOk)
                  /\ last' = Op("reset", 0, "", TRUE, FALSE, writeOk)
       ELSE /\ UNCHANGED <<state, store>>
            /\ last' = Op("reset", 0, "", FALSE, FALSE, FALSE)
    /\ ops' = ops + 1
    /\ UNCHANGED <<startDate, phase>>

\* The date input changes: setStartDate(value); an equal value changes nothing
\* and runs no effect, another one is rendered and saved under the date key.
SetStartDate(value) ==
    /\ phase = "running"
    /\ IF value = startDate
       THEN UNCHANGED <<startDate, store>>
       ELSE /\ startDate' = value
            /\ \E writeOk \in BOOLEAN : store' = saveValue(store, DATE_KEY, value, writeOk)
    /\ ops' = ops + 1
    /\ last' = Op("date", 0, "", FALSE, FALSE, FALSE)
    /\ UNCHANGED <<state, phase>>

Next ==
    \/ /\ ops < MaxOps
       /\ \/ \E readOk \in BOOLEAN : Mount(readOk)
          \/ \E n \in 1..TryCells : Toggle(TryCell(n).day, TryCell(n).habit)
          \/ \E yes \in BOOLEAN : ResetAll(yes)
          \/ \E value \in StartDates : SetStartDate(value)
    \/ MountEffects

Spec == Init /\ [][Next]_vars

\* The days toggle may be called with when the caller is not the grid.
ApiDays == {0, 1, NumDays, NumDays + 1}

\* The application with toggle called for days inside and outside 1..75.
NextApi ==
    \/ /\ ops < MaxOps
       /\ \/ \E readOk \in BOOLEAN : Mount(readOk)
          \/ \E day \in ApiDays, habit \in HabitSet : Toggle(day, habit)
    \/ MountEffects

SpecApi == Init /\ [][NextApi]_vars

\* The first cell, by day and then by habit, that is not set yet: no cell
\* before it is unset.
IsFirstUnset(day, i) ==
    /\ ~ToBoolean(Flag(state, day, HABITS[i]))
    /\ ~\E d \in 1..NumDays, j \in 1..Len(HABITS) :
           /\ d < day \/ (d = day /\ j < i)
           /\ ~ToBoolean(Flag(state, d, HABITS[j]))

\* A first run in which the user ticks the cells one after the other, all
\* 375 of them, with a store that works: the states the progress bar shows
\* on the way from 0 to 100.
NextFill ==
    \/ /\ phase = "closed"
       /\ Mount(TRUE)
    \/ /\ MountEffects
       /\ last'.writeOk /\ DATE_KEY \in DOMAIN store'
    \/ \E day \in 1..NumDays, i \in 1..Len(HABITS) :
          /\ phase = "running"
          /\ IsFirstUnset(day, i)
          /\ Toggle(day, HABITS[i])
          /\ last'.writeOk

SpecFill == Init /\ [][NextFill]_vars

\* A string of 80 characters, more than there are days.
LongString ==
    "xxxxxxxxxxxxxxxxxxxxxxxxxxxxxxxxxxxxxxxxxxxxxxxxxxxxxxxxxxxxxxxxxxxxxxxxxxxxxxxx"

\* What a store written by something else than this page may hold under the
\* state key: texts that are no JSON, JSON values of another shape, and
\* states as the page writes them (the keys of a text in any order).
ForeignStateTexts ==
    LET days == makeEmptyState.props
        firstDays(k) == JSObject(SubSeq(days, 1, k))
        withDay1(v) == JSObject(SetProp(days, PropertyKey(1), v))
        emptyText == JSON_stringify(makeEmptyState)
        dayText == JSON_stringify(Get(makeEmptyState, PropertyKey(1)))
    IN { <<>>,
         <<Tok("p", "{")>>,
         <<Tok("lit", "undefined")>>,
         <<Tok("lit", "null")>>,
         <<Tok("lit", "true")>>,
         <<NumTok(0)>>,
         <<Tok("p", "["), Tok("p", "]")>>,
         <<Tok("str", "abc")>>,
         <<Tok("str", LongString)>>,
         <<Tok("p", "{"), Tok("str", "diet"), Tok("p", ":"), NumTok(1), Tok("p", ","),
           Tok("str", "77"), Tok("p", ":"), NumTok(2), Tok("p", "}")>>,
         SubSeq(emptyText, 1, Len(emptyText) - 1)
            \o <<Tok("p", ","), Tok("str", "100"), Tok("p", ":")>> \o dayText
            \o <<Tok("p", ","), Tok("str", "77"), Tok("p", ":")>> \o dayText
            \o <<Tok("p", "}")>>,
         JSON_stringify(firstDays(0)),
         JSON_stringify(firstDays(1)),
         JSON_stringify(firstDays(NumDays - 1)),
         JSON_stringify(withDay1(JSNull)),
         JSON_stringify(withDay1(JSObject(<<Prop("diet", JSBool(TRUE))>>))),
         JSON_stringify(withDay1(JSObject(SetProp(Get(makeEmptyState, PropertyKey(1)).props,
                                                  "diet", JSNumber(1))))),
         JSON_stringify(withDay1(JSObject(SetProp(Get(makeEmptyState, PropertyKey(1)).props,
                                                  "diet",
                                                  JSObject(<<Prop("toString", JSNumber(1))>>))))),
         JSON_stringify(JSObject(SetProp(days, PropertyKey(NumDays + 1),
                                         Get(makeEmptyState, PropertyKey(1))))),
         JSON_stringify(makeEmptyState),
         JSON_stringify(toggle(makeEmptyState, 1, "diet")),
         JSON_stringify(toggle(toggle(makeEmptyState, NumDays, "pic"), 1, "water")) }

\* Under the date key: a date as the page writes it, or no date.
ForeignDateTexts == { JSON_stringify(JSString("")), JSON_stringify(JSString("2025-01-01")) }

\* The page is about to be opened on a store with such contents, or without
\* one or both keys.
InitLoad ==
    /\ state = JSUndefined
    /\ startDate = JSUndefined
    /\ \E hasState, hasDate \in BOOLEAN, s \in ForeignStateTexts, d \in ForeignDateTexts :
          store = [k \in (IF hasState THEN {STORAGE_KEY} ELSE {})
                         \cup (IF hasDate THEN {DATE_KEY} ELSE {}) |->
                      IF k = STORAGE_KEY THEN s ELSE d]
    /\ phase = "closed"
    /\ ops = 0
    /\ last = Op("none", 0, "", FALSE, FALSE, FALSE)

NextLoad ==
    \/ /\ phase = "closed"
       /\ \E readOk \in BOOLEAN : Mount(readOk)
    \/ MountEffects

SpecLoad == InitLoad /\ [][NextLoad]_vars

-----------------------------------------------------------------------------
(* Properties *)

Days == 1..NumDays

\* The keys of an object, as a set.
Keys(o) == {o.props[i].k : i \in 1..Len(o.props)}

\* s is a TrackerState: an object whose keys are exactly the days 1..75, each
\* a record whose keys are exactly the five habits, each a boolean.
WellFormed(s) ==
    /\ s.t = "object"
    /\ Len(s.props) = NumDays
    /\ Keys(s) = {PropertyKey(d) : d \in Days}
    /\ \A i \in 1..Len(s.props) :
          LET rec == s.props[i].v IN
          /\ rec.t = "object"
          /\ Len(rec.props) = Len(HABITS)
          /\ Keys(rec) = HabitSet
          /\ \A j \in 1..Len(rec.props) : rec.props[j].v.t = "boolean"

\* Every flag of s is false.
AllFalse(s) == \A d \in Days, h \in HabitSet : Flag(s, d, h) = JSBool(FALSE)

\* C1: a toggle of (day, habit), day in 1..75, on a state with the days 1..75
\* negates the boolean at [day][habit] and leaves every other entry, and the
\* set of days, as they were.
C1_ToggleFlipsOnlyItsCell ==
    [][(last'.op = "toggle" /\ last'.day \in Days /\ WellFormed(state)) =>
          /\ Keys(state') = Keys(state)
          /\ \A d \in Days, h \in HabitSet :
                Flag(state', d, h) =
                   IF d = last'.day /\ h = last'.habit
                   THEN JSBool(~Flag(state, d, h).b)
                   ELSE Flag(state, d, h)]_vars

\* A toggle has set a flag, in a state where other flags are set too.
C1_Witness ==
    /\ last.op = "toggle" /\ phase = "running" /\ ops = MaxOps
    /\ Flag(state, last.day, last.habit) = JSBool(TRUE)
    /\ \E d \in Days, h \in HabitSet :
          <<d, h>> # <<last.day, last.habit>> /\ Flag(state, d, h) = JSBool(TRUE)

\* C2: in every reachable state, toggling any cell (day in 1..75, any of the
\* five habits) twice in a row gives the state back.
C2_DoubleToggleIsIdentity ==
    phase = "running" =>
       \A d \in Days, h \in HabitSet : toggle(toggle(state, d, h), d, h) = state

\* The same cell was toggled twice in a row: the state is empty again.
C2_Witness ==
    /\ last.op = "toggle" /\ phase = "running" /\ ops = 2
    /\ state = makeEmptyState

\* C3: a reset answered yes replaces the state by the empty one (75 days, all
\* five flags false); a reset answered no leaves the state as it was.
C3_ResetAllOrNothing ==
    [][last'.op = "reset" =>
          IF last'.yes
          THEN WellFormed(state') /\ AllFalse(state')
          ELSE state' = state]_vars

\* A confirmed reset emptied a state that had a flag set: the store, whose
\* write failed, still holds that state.
C3_Witness ==
    /\ last.op = "reset" /\ last.yes /\ ~last.writeOk
    /\ AllFalse(state)
    /\ STORAGE_KEY \in DOMAIN store
    /\ ~AllFalse(JSON_parse(store[STORAGE_KEY]))

\* Every flag of s is true.
AllTrue(s) == \A d \in Days, h \in HabitSet : Flag(s, d, h) = JSBool(TRUE)

\* The denominator of the progress: four habits on every day, and pic on the
\* days it is eligible (every day, in the policy of this code).
PicEligible(d) == d \in Days

Denominator == NumDays * 4 + Cardinality({d \in Days : PicEligible(d)})

\* The numerator: the true flags of the four habits, and the true pic flags
\* of the eligible days.
Numerator(s) ==
    Cardinality({c \in Days \X (HabitSet \ {"pic"}) : Flag(s, c[1], c[2]) = JSBool(TRUE)})
    + Cardinality({d \in Days : PicEligible(d) /\ Flag(s, d, "pic") = JSBool(TRUE)})

\* C4: percentDone is 100 * Numerator / Denominator rounded to the nearest
\* integer, halves upwards; the denominator is 375; the empty state gives 0
\* and the state with every flag set gives 100.
C4_ProgressIsRoundedRatio ==
    phase = "running" =>
       LET p == percentDone(state)
           n == Numerator(state)
       IN /\ Denominator = 375
          /\ 2 * Denominator * p <= 200 * n + Denominator
          /\ 200 * n + Denominator < 2 * Denominator * (p + 1)
          /\ (AllFalse(state) => p = 0)
          /\ (AllTrue(state) => p = 100)

\* Every one of the 375 flags has been set and the bar shows 100.
C4_Witness == phase = "running" /\ AllTrue(state) /\ percentDone(state) = 100

\* Nothing usable is stored under the state key: the read throws, the key is
\* missing, or the text is not the JSON of a TrackerState.
NoStoredState(st, readOk) ==
    \/ ~readOk
    \/ STORAGE_KEY \notin DOMAIN st
    \/ ~WellFormed(JSON_parse(st[STORAGE_KEY]))

\* C5: opening the page never ends in an error, and the state it starts with
\* is the empty state whenever the state key is missing, the read fails, or
\* the stored text is not the JSON of a map of the days 1..75 to five booleans.
C5_LoadFallsBackToEmpty ==
    [][/\ last'.op = "mount" =>
             /\ phase' = "mounted"
             /\ (NoStoredState(store, last'.readOk) => state' = makeEmptyState)
       /\ last'.op = "effects" => phase' = "running"]_vars

\* C6: a reachable state saved to the store and loaded from it in a fresh
\* session comes back with the same days and the same value in every entry.
C6_SaveLoadRoundTrip ==
    phase \in {"mounted", "running"} =>
       LET loaded == loadValue(saveValue(store, STORAGE_KEY, state, TRUE),
                               STORAGE_KEY, makeEmptyState, TRUE)
       IN /\ Keys(loaded) = Keys(state)
          /\ \A d \in Days, h \in HabitSet : Flag(loaded, d, h) = Flag(state, d, h)

\* A reload brought back a state with a flag set.
C6_Witness ==
    /\ last.op = "mount" /\ last.readOk /\ ops > 0 /\ phase = "mounted"
    /\ ~AllFalse(state)

\* C7: the first run starts with the days 1..75, every flag false, and
\* whatever toggles, resets, date changes and reloads follow, the state is
\* a map of exactly the days 1..75 to records of the five habits, all booleans.
C7_StateShapeInvariant ==
    /\ phase # "closed" => (phase \in {"mounted", "running"} /\ WellFormed(state))
    /\ (last.op = "mount" /\ ops = 0) => AllFalse(state)

\* A declined reset, late in a run, on a state with a flag set.
C7_Witness ==
    /\ last.op = "reset" /\ ~last.yes /\ ops = MaxOps
    /\ WellFormed(state) /\ ~AllFalse(state)

\* C8: after a toggle or a confirmed reset whose save worked, the state key
\* holds the JSON of the whole current state.
C8_SaveWritesWholeState ==
    (/\ phase = "running" /\ last.writeOk
     /\ (last.op = "toggle" \/ (last.op = "reset" /\ last.yes))) =>
       /\ STORAGE_KEY \in DOMAIN store
       /\ store[STORAGE_KEY] = JSON_stringify(state)
       /\ LET stored == JSON_parse(store[STORAGE_KEY]) IN
          WellFormed(stored) /\ stored = state

\* The second of two toggles was saved: the store holds both flags.
C8_Witness ==
    /\ last.op = "toggle" /\ last.writeOk /\ ops = 2 /\ phase = "running"
    /\ DoneCount(state) = 2
    /\ DoneCount(JSON_parse(store[STORAGE_KEY])) = 2

\* The step is a toggle or a confirmed reset whose write failed.
FailedSave ==
    /\ ~last'.writeOk
    /\ (last'.op = "toggle" \/ (last'.op = "reset" /\ last'.yes))

\* C9: when the write after a toggle or a confirmed reset fails, nothing is
\* raised, the state in memory has the mutation, the store is what it was,
\* and the next toggle of any cell works.
C9_WriteFailureIsSwallowed ==
    [][FailedSave =>
          /\ phase' = "running"
          /\ store' = store
          /\ IF last'.op = "toggle"
             THEN Flag(state', last'.day, last'.habit)
                     = JSBool(~ToBoolean(Flag(state, last'.day, last'.habit)))
             ELSE AllFalse(state')
          /\ \A d \in Days, h \in HabitSet : toggle(state', d, h) # Throw]_vars

\* A toggle whose write failed: the flag is set in memory and the store still
\* holds the state from before.
C9_Witness ==
    /\ last.op = "toggle" /\ ~last.writeOk /\ phase = "running"
    /\ Flag(state, last.day, last.habit) = JSBool(TRUE)
    /\ STORAGE_KEY \in DOMAIN store
    /\ Flag(JSON_parse(store[STORAGE_KEY]), last.day, last.habit) = JSBool(FALSE)

\* C10: toggle with a day outside 1..75 raises nothing, leaves the state as
\* it was and adds no day.
C10_OutOfRangeToggleIsNoOp ==
    [][(last'.op = "toggle" /\ last'.day \notin Days) =>
          /\ phase' = "running"
          /\ state' = state
          /\ Keys(state') = {PropertyKey(d) : d \in Days}]_vars

\* C11: a change of the start date (to a date or to none) leaves every flag,
\* the progress percentage and what the store holds under the state key as
\* they were; a toggle and a reset, confirmed or not, leave the start date
\* and what the store holds under the date key as they were.
C11_StartDateIndependent ==
    [][/\ last'.op = "date" =>
             /\ \A d \in Days, h \in HabitSet : Flag(state', d, h) = Flag(state, d, h)
             /\ state' = state
             /\ percentDone(state') = percentDone(state)
             /\ getItem(store', STORAGE_KEY) = getItem(store, STORAGE_KEY)
       /\ last'.op \in {"toggle", "reset"} =>
             /\ startDate' = startDate
             /\ getItem(store', DATE_KEY) = getItem(store, DATE_KEY)]_vars

\* A date was chosen and saved after a cell had been ticked: the tick is
\* still in the state and in the store.
C11_Witness ==
    /\ last.op = "date" /\ phase = "running" /\ ops = 2
    /\ startDate = JSString("2025-01-01")
    /\ getItem(store, DATE_KEY) = JSText(JSON_stringify(startDate))
    /\ DoneCount(state) = 1
    /\ getItem(store, STORAGE_KEY) = JSText(JSON_stringify(state))

====
